---- MODULE Spec2Model ----
(***************************************************************************)
(* API-key credential subsystem of ai-api-service:                         *)
(*   app/auth/api_keys.py   APIKeyManager, verify_api_key, verify_admin_key *)
(*   app/routers/admin.py   the admin routes that create/revoke/activate    *)
(*   init_admin.py          the out-of-band script minting an admin key     *)
(*                                                                         *)
(* A string is a sequence of tokens: "/generate/chat" is                    *)
(* <<"/generate", "/chat">>, and "," and "*" are tokens of their own, so    *)
(* that ",".join and str.split act on the text as they do in the code.      *)
(* A secret is <<first 12 characters, the remaining characters>>.           *)
(* SQL NULL / Python None is the empty tuple; a present value v is <<v>>.   *)
(***************************************************************************)
EXTENDS Integers, Sequences, FiniteSets, TLC

\* ------------------------------------------------------------- bounds
MaxKeys == 2
MaxTime == 2
MaxUsage == 2
MaxLogs == 1

Workers == {"w1", "w2"}

\* ---------------------------------------------------- program constants
HTTP_200_OK == 200
HTTP_201_CREATED == 201
HTTP_401_UNAUTHORIZED == 401
HTTP_403_FORBIDDEN == 403
HTTP_404_NOT_FOUND == 404
HTTP_500_INTERNAL_SERVER_ERROR == 500
ADMIN_RATE_LIMIT == 1000

\* --------------------------------------------------------------- text
Comma == ","
Star == <<"*">>
Gen == <<"/generate">>
GenChat == <<"/generate", "/chat">>
Ocr == <<"/ocr">>
GenCommaOcr == <<"/generate", ",", "/ocr">>
AdminCreate == <<"/admin/keys", "/create">>
AdminRevoke == <<"/admin/keys", "/revoke">>
AdminActivate == <<"/admin/keys", "/activate">>
AdminList == <<"/admin/keys", "/list">>

None == <<>>
Some(v) == <<v>>

\* sep.join(parts)
RECURSIVE Join(_, _)
Join(sep, parts) ==
    IF parts = <<>> THEN <<>>
    ELSE IF Len(parts) = 1 THEN parts[1]
    ELSE parts[1] \o <<sep>> \o Join(sep, Tail(parts))

\* text.split(sep): always at least one piece, the pieces may be empty
RECURSIVE Split(_, _)
Split(text, sep) ==
    IF \A i \in 1..Len(text) : text[i] # sep THEN <<text>>
    ELSE LET k == CHOOSE i \in 1..Len(text) :
                      text[i] = sep /\ \A j \in 1..(i - 1) : text[j] # sep
         IN  <<SubSeq(text, 1, k - 1)>> \o Split(SubSeq(text, k + 1, Len(text)), sep)

Range(seq) == {seq[i] : i \in 1..Len(seq)}

\* ------------------------------------------------------------ secrets
Secrets == {<<"ai_p1", "a">>, <<"ai_p1", "b">>, <<"ai_p2", "a">>}
NoKey == <<>>

\* generate_key: a random token.  Tokens are interchangeable, so the first
\* one ever drawn is named <<"ai_p1", "a">>; later draws are any token, one
\* already issued included (a collision).
generate_key(keys) == IF keys = <<>> THEN {<<"ai_p1", "a">>} ELSE Secrets

hash_key(api_key) == <<"sha256">> \o api_key

key_prefix_of(api_key) == SubSeq(api_key, 1, 1)

Prefixes == {key_prefix_of(s) : s \in Secrets}


\* ------------------------------------------------------- input domains
AdminNames == {"Admin Principal"}
ClientNames == {"client"}
Descriptions == {""}
RateLimits == {10}
DaysArgs == {None, Some(1), Some(30)}

\* Optional[List[str]]: absent, or a list of strings
NoList == [given |-> FALSE, val |-> <<>>]
ListOf(l) == [given |-> TRUE, val |-> l]
EndpointArgs ==
    {NoList, ListOf(<<>>), ListOf(<<Star>>), ListOf(<<Gen>>),
     ListOf(<<Gen, Ocr>>), ListOf(<<GenCommaOcr>>)}

InferencePaths == {Gen, GenChat, Ocr}
AdminPaths == {AdminCreate, AdminRevoke, AdminActivate, AdminList}
Paths == InferencePaths \cup AdminPaths

\* GET /admin/keys/info/{key_prefix}: the prefix is part of the path
AdminInfo(key_prefix) == <<"/admin/keys", "/info">> \o key_prefix
AdminInfoPaths == {AdminInfo(key_prefix_of(s)) : s \in Secrets}

\* GET /admin/keys/stats?key_prefix=...
AdminStats == <<"/admin/keys", "/stats">>

\* the routes of the ocr router declared without Depends(verify_api_key)
OcrRecognize == <<"/ocr", "/recognize">>
OcrDetectLanguages == <<"/ocr", "/detect-languages">>
UnguardedPaths == {OcrRecognize, OcrDetectLanguages}

Presented == Secrets \cup {NoKey}

\* the arguments of a create_key call
CreateArgs(name, description, expires_in_days, rate_limit, allowed_endpoints, is_admin) ==
    [name |-> name, description |-> description,
     expires_in_days |-> expires_in_days, rate_limit |-> rate_limit,
     allowed_endpoints |-> allowed_endpoints, is_admin |-> is_admin]

\* init_admin.py create_admin_key: what the script passes to create_key
AdminArgs(name, description, expires_in_days) ==
    CreateArgs(name, description, expires_in_days, ADMIN_RATE_LIMIT,
               ListOf(<<Star>>), TRUE)

\* ------------------------------------------------------- environments
\* What the callers do: who serves requests, which inputs they send, and
\* where the unbounded counters (usage_count, the log) are capped.
EnvSequential ==
    [keys |-> MaxKeys, usage |-> MaxUsage, logs |-> MaxLogs,
     admin_days |-> DaysArgs, days |-> DaysArgs,
     endpoint_args |-> EndpointArgs, is_admin |-> BOOLEAN,
     presented |-> Presented, paths |-> Paths, flags |-> BOOLEAN,
     faults |-> {FALSE}, save |-> {FALSE}]

EnvConcurrent == EnvSequential

\* the end-to-end scenario of the specification: its inputs only, and room
\* for its three accepted validations and two admin requests
EnvScenario ==
    [keys |-> MaxKeys, usage |-> MaxUsage + 1, logs |-> MaxLogs + 1,
     admin_days |-> {None}, days |-> {Some(30)},
     endpoint_args |-> {ListOf(<<Gen>>)}, is_admin |-> {FALSE},
     presented |-> Secrets, paths |-> {Gen, Ocr, AdminCreate, AdminRevoke, AdminList},
     flags |-> BOOLEAN, faults |-> {FALSE}, save |-> {FALSE}]

\* two admin requests creating keys at the same time: room for the script's
\* key and one key from each, all other inputs held fixed
EnvRace ==
    [keys |-> MaxKeys + 1, usage |-> MaxUsage, logs |-> MaxLogs + 1,
     admin_days |-> {None}, days |-> {None},
     endpoint_args |-> {NoList}, is_admin |-> {FALSE},
     presented |-> Secrets, paths |-> {Gen, AdminCreate},
     flags |-> {TRUE}, faults |-> {FALSE}, save |-> {FALSE}]

\* the whole service, one request at a time: every admin route, the routes
\* registered without a dependency, a store that may fail under validate_key,
\* and an operator who may let the script save the key
EnvService ==
    [keys |-> MaxKeys, usage |-> MaxUsage, logs |-> MaxLogs,
     admin_days |-> {None}, days |-> {None, Some(1)},
     endpoint_args |-> {NoList, ListOf(<<Gen>>)}, is_admin |-> BOOLEAN,
     presented |-> Presented,
     paths |-> {Gen, Ocr} \cup AdminPaths \cup AdminInfoPaths,
     flags |-> BOOLEAN, faults |-> BOOLEAN, save |-> BOOLEAN]

\* a service started on a file an older version left behind: the admin
\* routes with stats, every other input held fixed, and room for the old row
\* and its log entry
EnvStore ==
    [keys |-> MaxKeys, usage |-> MaxUsage + 1, logs |-> MaxLogs + 1,
     admin_days |-> {None}, days |-> {None},
     endpoint_args |-> {NoList}, is_admin |-> {FALSE},
     presented |-> Presented,
     paths |-> {Gen} \cup AdminPaths \cup {AdminStats},
     flags |-> BOOLEAN, faults |-> {FALSE}, save |-> {FALSE}]

\* -------------------------------------------------------------- state
VARIABLES
    api_keys,   \* table api_keys: a sequence of rows, id = position
    logs,       \* table api_key_logs
    now,        \* the clock (days)
    req,        \* per worker: the request it is serving and how far it got
    resp,       \* the response sent by the step just taken, if it sent one
    origin,     \* history: for each row, who called create_key
    key_files,  \* the .admin_key_*.txt files written by init_admin.py
    columns,    \* the columns of table api_keys in the file ({}: no table yet)
    self_revoked \* history: the credentials that revoked their own prefix

vars == <<api_keys, logs, now, req, resp, origin, key_files, columns, self_revoked>>

Idle ==
    [pc |-> "idle", dep |-> "", api_key |-> NoKey, endpoint |-> <<>>,
     require_admin |-> FALSE, key_data |-> None, status |-> 0, body |-> None,
     created_with |-> None, logged |-> FALSE, fault |-> FALSE, query |-> None]

\* faulty variant: the INSERT leaves rate_limit to the column default
NewRow_DefaultRateLimit(api_key, a, clock) ==
    [key_hash |-> hash_key(api_key), key_prefix |-> key_prefix_of(api_key),
     name |-> a.name, description |-> a.description, created_at |-> clock,
     expires_at |-> IF a.expires_in_days # None /\ a.expires_in_days[1] # 0
                    THEN Some(clock + a.expires_in_days[1]) ELSE None,
     is_active |-> TRUE, rate_limit |-> 60,
     allowed_endpoints |-> IF a.allowed_endpoints.given /\ a.allowed_endpoints.val # <<>>
                           THEN Join(Comma, a.allowed_endpoints.val) ELSE Star,
     last_used_at |-> None, usage_count |-> 0, is_admin |-> a.is_admin]

\* ------------------------------------------------------- APIKeyManager
\* create_key: the row INSERTed (column defaults filled in)
NewRow(api_key, a, clock) ==
    [key_hash |-> hash_key(api_key),
     key_prefix |-> key_prefix_of(api_key),
     name |-> a.name,
     description |-> a.description,
     created_at |-> clock,
     expires_at |-> IF a.expires_in_days # None /\ a.expires_in_days[1] # 0
                    THEN Some(clock + a.expires_in_days[1]) ELSE None,
     is_active |-> TRUE,
     rate_limit |-> a.rate_limit,
     allowed_endpoints |-> IF a.allowed_endpoints.given /\ a.allowed_endpoints.val # <<>>
                           THEN Join(Comma, a.allowed_endpoints.val) ELSE Star,
     last_used_at |-> None,
     usage_count |-> 0,
     is_admin |-> a.is_admin]

\* faulty variant: a table without the UNIQUE constraint
HashTaken_NoConstraint(keys, h) == FALSE

\* key_hash TEXT UNIQUE: the INSERT raises when the hash is already there
HashTaken(keys, h) == \E i \in 1..Len(keys) : keys[i].key_hash = h

\* faulty variant: the SELECT without "AND is_active = 1"
SelectActive_AnyRow(keys, h) ==
    LET hit == {i \in 1..Len(keys) : keys[i].key_hash = h}
    IN  IF hit = {} THEN None
        ELSE Some(keys[CHOOSE i \in hit : \A j \in hit : i <= j])

\* SELECT * FROM api_keys WHERE key_hash = ? AND is_active = 1; fetchone()
SelectActive(keys, h) ==
    LET hit == {i \in 1..Len(keys) : keys[i].key_hash = h /\ keys[i].is_active}
    IN  IF hit = {} THEN None
        ELSE Some(keys[CHOOSE i \in hit : \A j \in hit : i <= j])

\* validate_key up to the fetch: the missing-key check and the SELECT
LookupStatus(keys, api_key) ==
    IF api_key = NoKey THEN HTTP_401_UNAUTHORIZED
    ELSE IF SelectActive(keys, hash_key(api_key)) = None THEN HTTP_401_UNAUTHORIZED
    ELSE HTTP_200_OK

\* faulty variant: the expiry check moved before the admin check
PolicyStatus_ExpiryFirst(key_data, endpoint, require_admin, clock) ==
    IF key_data.expires_at # None /\ clock > key_data.expires_at[1]
    THEN HTTP_401_UNAUTHORIZED
    ELSE IF require_admin /\ ~key_data.is_admin THEN HTTP_403_FORBIDDEN
    ELSE IF key_data.allowed_endpoints # Star
            /\ endpoint \notin Range(Split(key_data.allowed_endpoints, Comma))
         THEN HTTP_403_FORBIDDEN
    ELSE HTTP_200_OK

\* faulty variant: a key already expired at the instant of its deadline
PolicyStatus_ExpiredAtDeadline(key_data, endpoint, require_admin, clock) ==
    IF require_admin /\ ~key_data.is_admin THEN HTTP_403_FORBIDDEN
    ELSE IF key_data.expires_at # None /\ clock >= key_data.expires_at[1]
         THEN HTTP_401_UNAUTHORIZED
    ELSE IF key_data.allowed_endpoints # Star
            /\ endpoint \notin Range(Split(key_data.allowed_endpoints, Comma))
         THEN HTTP_403_FORBIDDEN
    ELSE HTTP_200_OK

\* faulty variant: an entry allows every path that begins with it
PolicyStatus_PrefixMatch(key_data, endpoint, require_admin, clock) ==
    IF require_admin /\ ~key_data.is_admin THEN HTTP_403_FORBIDDEN
    ELSE IF key_data.expires_at # None /\ clock > key_data.expires_at[1]
         THEN HTTP_401_UNAUTHORIZED
    ELSE IF key_data.allowed_endpoints # Star
            /\ \A e \in Range(Split(key_data.allowed_endpoints, Comma)) :
                   ~(Len(e) <= Len(endpoint) /\ SubSeq(endpoint, 1, Len(e)) = e)
         THEN HTTP_403_FORBIDDEN
    ELSE HTTP_200_OK

\* faulty variant: no admin check
PolicyStatus_NoAdminCheck(key_data, endpoint, require_admin, clock) ==
    IF key_data.expires_at # None /\ clock > key_data.expires_at[1]
    THEN HTTP_401_UNAUTHORIZED
    ELSE IF key_data.allowed_endpoints # Star
            /\ endpoint \notin Range(Split(key_data.allowed_endpoints, Comma))
         THEN HTTP_403_FORBIDDEN
    ELSE HTTP_200_OK

\* the checks of validate_key on the fetched row, in the code's order
PolicyStatus(key_data, endpoint, require_admin, clock) ==
    IF require_admin /\ ~key_data.is_admin THEN HTTP_403_FORBIDDEN
    ELSE IF key_data.expires_at # None /\ clock > key_data.expires_at[1]
         THEN HTTP_401_UNAUTHORIZED
    ELSE IF key_data.allowed_endpoints # Star
            /\ endpoint \notin Range(Split(key_data.allowed_endpoints, Comma))
         THEN HTTP_403_FORBIDDEN
    ELSE HTTP_200_OK

\* faulty variant: the UPDATE without its WHERE clause
UpdateUsage_EveryRow(keys, h, clock) ==
    [i \in 1..Len(keys) |->
        [keys[i] EXCEPT !.last_used_at = Some(clock),
                        !.usage_count = keys[i].usage_count + 1]]

\* faulty variant: the UPDATE sets last_used_at only
UpdateUsage_NoCount(keys, h, clock) ==
    [i \in 1..Len(keys) |->
        IF keys[i].key_hash = h
        THEN [keys[i] EXCEPT !.last_used_at = Some(clock)]
        ELSE keys[i]]

\* UPDATE api_keys SET last_used_at = CURRENT_TIMESTAMP,
\*                     usage_count = usage_count + 1 WHERE key_hash = ?
UpdateUsage(keys, h, clock) ==
    [i \in 1..Len(keys) |->
        IF keys[i].key_hash = h
        THEN [keys[i] EXCEPT !.last_used_at = Some(clock),
                             !.usage_count = keys[i].usage_count + 1]
        ELSE keys[i]]

\* faulty variant: the UPDATE of is_active without its WHERE clause
SetActive_EveryRow(keys, key_prefix, active) ==
    [i \in 1..Len(keys) |-> [keys[i] EXCEPT !.is_active = active]]

\* faulty variant: the UPDATE flips is_active of the rows of the prefix
SetActive_Toggle(keys, key_prefix, active) ==
    [i \in 1..Len(keys) |->
        IF keys[i].key_prefix = key_prefix
        THEN [keys[i] EXCEPT !.is_active = ~keys[i].is_active]
        ELSE keys[i]]

\* UPDATE api_keys SET is_active = ? WHERE key_prefix = ?
SetActive(keys, key_prefix, active) ==
    [i \in 1..Len(keys) |->
        IF keys[i].key_prefix = key_prefix
        THEN [keys[i] EXCEPT !.is_active = active]
        ELSE keys[i]]

\* faulty variant: rowcount read as zero whatever the UPDATE matched
RowCount_NoMatch(keys, key_prefix) == 0

\* cursor.rowcount of that UPDATE
RowCount(keys, key_prefix) ==
    Cardinality({i \in 1..Len(keys) : keys[i].key_prefix = key_prefix})

\* faulty variant: the UPDATE of revoke_key matches no row
revoke_key_NoRow(keys, key_prefix) == keys

\* faulty variant: revoke_key deletes the rows of the prefix
revoke_key_Delete(keys, key_prefix) ==
    SelectSeq(keys, LAMBDA k : k.key_prefix # key_prefix)

\* faulty variant: revoke_key spares the admin credentials
revoke_key_SpareAdmins(keys, key_prefix) ==
    [i \in 1..Len(keys) |->
        IF keys[i].key_prefix = key_prefix /\ ~keys[i].is_admin
        THEN [keys[i] EXCEPT !.is_active = FALSE]
        ELSE keys[i]]

revoke_key(keys, key_prefix) == SetActive(keys, key_prefix, FALSE)
activate_key(keys, key_prefix) == SetActive(keys, key_prefix, TRUE)

\* request.method: the list and info routes are GET, the others POST
Method(endpoint) ==
    IF endpoint \in {AdminList, AdminStats} \/ endpoint \in AdminInfoPaths
    THEN "GET" ELSE "POST"

\* faulty variant: the entry names the router, not the path of the request
LogEntry_RouterOnly(key_data, endpoint) ==
    [key_prefix |-> key_data.key_prefix, endpoint |-> <<Head(endpoint)>>,
     method |-> Method(endpoint), status_code |-> HTTP_200_OK]

\* the INSERT of log_request
LogEntry(key_data, endpoint) ==
    [key_prefix |-> key_data.key_prefix, endpoint |-> endpoint,
     method |-> Method(endpoint), status_code |-> HTTP_200_OK]

\* which entry point serves the call: the admin router's dependency, the
\* inference routers' dependency, or validate_key called directly
DepOf(endpoint, require_admin) ==
    IF require_admin /\ endpoint \in AdminPaths \cup AdminInfoPaths \cup {AdminStats}
    THEN "verify_admin_key"
    ELSE IF ~require_admin /\ endpoint \in InferencePaths THEN "verify_api_key"
    ELSE "validate_key"

\* ------------------------------------------------- bounding the counters
RECURSIVE TotalUsage(_)
TotalUsage(keys) ==
    IF keys = <<>> THEN 0 ELSE keys[1].usage_count + TotalUsage(Tail(keys))

InFlight == Cardinality({w \in Workers : req[w].pc = "selected"})
Logging == Cardinality({w \in Workers : req[w].pc = "validated"})
Creating ==
    Cardinality({w \in Workers : req[w].pc # "idle"
                                 /\ req[w].endpoint = AdminCreate
                                 /\ req[w].dep = "verify_admin_key"})

\* the caps of the model: usage_count, the log and the table are unbounded
MayLookup(E) == TotalUsage(api_keys) + InFlight < E.usage
MayServe(E, dep, endpoint) ==
    /\ dep # "validate_key" => Len(logs) + Logging < E.logs
    /\ (dep = "verify_admin_key" /\ endpoint = AdminCreate)
           => Len(api_keys) + Creating < E.keys

\* ------------------------------------------------------- the schema
\* the columns of CREATE TABLE api_keys (id is the position of the row)
ApiKeysColumns ==
    {"key_hash", "key_prefix", "name", "description", "created_at",
     "expires_at", "is_active", "rate_limit", "allowed_endpoints",
     "last_used_at", "usage_count", "is_admin"}

\* the table as an older version of the service created it
OldColumns == ApiKeysColumns \ {"is_admin"}

\* faulty variant: the table is created anew with the column
AddColumn_Recreate(keys, column, default) == <<>>

\* ALTER TABLE api_keys ADD COLUMN column DEFAULT default
AddColumn(keys, column, default) ==
    [i \in 1..Len(keys) |-> keys[i] @@ (column :> default)]

\* _migrate_db: the rows after it ran on a table with columns cols
migrate_db(keys, cols) ==
    IF cols # {} /\ "is_admin" \notin cols
    THEN AddColumn(keys, "is_admin", FALSE) ELSE keys

\* _migrate_db then _init_db: the columns of the table afterwards.  CREATE
\* TABLE IF NOT EXISTS creates the table only when there is none.
init_db(cols) == IF cols = {} THEN ApiKeysColumns ELSE cols \cup {"is_admin"}

\* ------------------------------------------------------------ actions
Init ==
    /\ api_keys = <<>>
    /\ logs = <<>>
    /\ now = 0
    /\ req = [w \in Workers |-> Idle]
    /\ resp = None
    /\ origin = <<>>
    /\ key_files = {}
    /\ columns = ApiKeysColumns
    /\ self_revoked = {}

\* the worker answers and is free again
Answer(w, r, status, body) ==
    /\ req' = [req EXCEPT ![w] = Idle]
    /\ resp' = Some([r EXCEPT !.pc = "done", !.status = status, !.body = body])

\* what create_key returned in the step just taken, with its arguments
JustCreated(api_key) ==
    IF resp # None /\ resp[1].dep \in {"create_admin_key", "create_api_key"}
       /\ resp[1].body = Some(api_key)
    THEN resp[1].created_with ELSE None

\* init_admin.py save_to_file: the file it writes, named after the time, with
\* the key in it
save_to_file(api_key, clock) == [timestamp |-> clock, api_key |-> api_key]

\* faulty variant: an error of the store is taken for a valid key
StoreError_FailOpen(w, r) ==
    Answer(w, [r EXCEPT !.fault = TRUE], HTTP_200_OK, r.key_data)

\* a statement of validate_key raises sqlite3.Error: the exception leaves
\* validate_key and the dependency, the connection rolls back, the client
\* gets 500
StoreError(w, r) ==
    Answer(w, [r EXCEPT !.fault = TRUE], HTTP_500_INTERNAL_SERVER_ERROR, None)

\* init_admin.py: create_admin_key, run by the operator at a terminal.  The
\* script imports api_key_manager, whose construction opens the store.
InitAdminScript(E) ==
    /\ Len(api_keys) + Creating < E.keys
    /\ \E api_key \in generate_key(api_keys), name \in AdminNames,
          description \in Descriptions, expires_in_days \in E.admin_days,
          save \in E.save :
        LET a == AdminArgs(name, description, expires_in_days)
        IN  /\ ~HashTaken(api_keys, hash_key(api_key))
            /\ api_keys' = Append(migrate_db(api_keys, columns), NewRow(api_key, a, now))
            /\ columns' = init_db(columns)
            /\ origin' = Append(origin, "init_admin")
            /\ key_files' = IF save THEN key_files \cup {save_to_file(api_key, now)}
                            ELSE key_files
            /\ resp' = Some([Idle EXCEPT !.pc = "done", !.dep = "create_admin_key",
                                         !.body = Some(api_key),
                                         !.created_with = Some(a)])
    /\ UNCHANGED <<logs, now, req, self_revoked>>

\* a call arrives: validate_key, lines 166-190.  The endpoint and
\* require_admin of the call are first read after the fetch, and are drawn there.
BeginRequest(w, E) ==
    /\ req[w].pc = "idle"
    /\ \E api_key \in E.presented, fault \in E.faults :
        LET r == [Idle EXCEPT !.dep = "validate_key", !.api_key = api_key]
            st == LookupStatus(api_keys, api_key)
        IN  IF api_key # NoKey /\ fault
            THEN StoreError(w, r)
            ELSE IF st # HTTP_200_OK
            THEN Answer(w, r, st, None)
            ELSE /\ MayLookup(E)
                 /\ req' = [req EXCEPT ![w] =
                        [r EXCEPT !.pc = "selected",
                                  !.key_data = SelectActive(api_keys, hash_key(api_key)),
                                  !.created_with = JustCreated(api_key)]]
                 /\ resp' = None
    /\ UNCHANGED <<api_keys, logs, now, origin, key_files, columns, self_revoked>>

\* faulty variant: the count is computed from the fetched row and written back
FinishValidate_WriteBack(w, E) ==
    /\ req[w].pc = "selected"
    /\ \E endpoint \in E.paths, require_admin \in E.flags :
        LET dep == DepOf(endpoint, require_admin)
            r == [req[w] EXCEPT !.dep = dep, !.endpoint = endpoint,
                                !.require_admin = require_admin]
            st == PolicyStatus(r.key_data[1], endpoint, require_admin, now)
        IN  IF st # HTTP_200_OK
            THEN /\ Answer(w, r, st, None)
                 /\ UNCHANGED api_keys
            ELSE /\ MayServe(E, dep, endpoint)
                 /\ api_keys' =
                       [i \in 1..Len(api_keys) |->
                           IF api_keys[i].key_hash = hash_key(r.api_key)
                           THEN [api_keys[i] EXCEPT
                                    !.last_used_at = Some(now),
                                    !.usage_count = r.key_data[1].usage_count + 1]
                           ELSE api_keys[i]]
                 /\ IF dep = "validate_key"
                    THEN Answer(w, r, HTTP_200_OK, r.key_data)
                    ELSE /\ req' = [req EXCEPT ![w] = [r EXCEPT !.pc = "validated"]]
                         /\ resp' = None
    /\ UNCHANGED <<logs, now, origin, key_files, columns, self_revoked>>

\* validate_key, lines 192-225: the checks on the fetched row, then the UPDATE
FinishValidate(w, E) ==
    /\ req[w].pc = "selected"
    /\ \E endpoint \in E.paths, require_admin \in E.flags, fault \in E.faults :
        LET dep == DepOf(endpoint, require_admin)
            r == [req[w] EXCEPT !.dep = dep, !.endpoint = endpoint,
                                !.require_admin = require_admin]
            st == PolicyStatus(r.key_data[1], endpoint, require_admin, now)
        IN  IF st # HTTP_200_OK
            THEN /\ Answer(w, r, st, None)
                 /\ UNCHANGED api_keys
            ELSE IF fault
            THEN /\ StoreError(w, r)
                 /\ UNCHANGED api_keys
            ELSE /\ MayServe(E, dep, endpoint)
                 /\ api_keys' = UpdateUsage(api_keys, hash_key(r.api_key), now)
                 /\ IF dep = "validate_key"
                    THEN Answer(w, r, HTTP_200_OK, r.key_data)
                    ELSE /\ req' = [req EXCEPT ![w] = [r EXCEPT !.pc = "validated"]]
                         /\ resp' = None
    /\ UNCHANGED <<logs, now, origin, key_files, columns, self_revoked>>

\* faulty variant: an exception of log_request is propagated to the client
LogRequest_Propagates(w) ==
    /\ req[w].pc = "validated"
    /\ \E written \in BOOLEAN :
        LET r == [req[w] EXCEPT !.logged = written]
        IN  /\ logs' = IF written
                       THEN Append(logs, LogEntry(r.key_data[1], r.endpoint))
                       ELSE logs
            /\ IF ~written
               THEN Answer(w, r, HTTP_500_INTERNAL_SERVER_ERROR, None)
               ELSE IF r.dep = "verify_admin_key"
               THEN /\ req' = [req EXCEPT ![w] = [r EXCEPT !.pc = "handler"]]
                    /\ resp' = None
               ELSE Answer(w, r, HTTP_200_OK, r.key_data)
    /\ UNCHANGED <<api_keys, now, origin, key_files, columns, self_revoked>>

\* verify_api_key / verify_admin_key after validate_key returned: log_request,
\* whose exception is swallowed
LogRequest(w) ==
    /\ req[w].pc = "validated"
    /\ \E written \in BOOLEAN :
        LET r == [req[w] EXCEPT !.logged = written]
        IN  /\ logs' = IF written
                       THEN Append(logs, LogEntry(r.key_data[1], r.endpoint))
                       ELSE logs
            /\ IF r.dep = "verify_admin_key"
               THEN /\ req' = [req EXCEPT ![w] = [r EXCEPT !.pc = "handler"]]
                    /\ resp' = None
               ELSE Answer(w, r, HTTP_200_OK, r.key_data)
    /\ UNCHANGED <<api_keys, now, origin, key_files, columns, self_revoked>>

\* admin.py create_api_key
HandleCreate(w, E) ==
    /\ req[w].pc = "handler" /\ req[w].endpoint = AdminCreate
    /\ \E api_key \in generate_key(api_keys), name \in ClientNames,
          description \in Descriptions, expires_in_days \in E.days,
          rate_limit \in RateLimits, allowed_endpoints \in E.endpoint_args,
          is_admin \in E.is_admin :
        LET a == CreateArgs(name, description, expires_in_days, rate_limit,
                            allowed_endpoints, is_admin)
        IN  IF HashTaken(api_keys, hash_key(api_key))
            THEN /\ Answer(w, [req[w] EXCEPT !.dep = "create_api_key"],
                           HTTP_500_INTERNAL_SERVER_ERROR, None)
                 /\ UNCHANGED <<api_keys, origin>>
            ELSE /\ api_keys' = Append(api_keys, NewRow(api_key, a, now))
                 /\ origin' = Append(origin, "admin_route")
                 /\ Answer(w, [req[w] EXCEPT !.dep = "create_api_key",
                                             !.created_with = Some(a)],
                           HTTP_201_CREATED, Some(api_key))
    /\ UNCHANGED <<logs, now, key_files, columns, self_revoked>>

\* admin.py revoke_api_key / activate_api_key
HandleSetActive(w) ==
    /\ req[w].pc = "handler" /\ req[w].endpoint \in {AdminRevoke, AdminActivate}
    /\ \E key_prefix \in Prefixes :
        /\ api_keys' = IF req[w].endpoint = AdminRevoke
                       THEN revoke_key(api_keys, key_prefix)
                       ELSE activate_key(api_keys, key_prefix)
        /\ Answer(w, [req[w] EXCEPT !.dep = IF req[w].endpoint = AdminRevoke
                                            THEN "revoke_api_key"
                                            ELSE "activate_api_key"],
                  IF RowCount(api_keys, key_prefix) > 0
                  THEN HTTP_200_OK ELSE HTTP_404_NOT_FOUND,
                  Some(key_prefix))
        /\ self_revoked' =
              IF req[w].endpoint = AdminRevoke
                 /\ req[w].key_data[1].key_prefix = key_prefix
              THEN self_revoked \cup {req[w].key_data[1].key_hash}
              ELSE self_revoked
    /\ UNCHANGED <<logs, now, origin, key_files, columns>>

\* the columns list_keys selects from row id
ListedRow(keys, id) ==
    [id |-> id, key_prefix |-> keys[id].key_prefix, name |-> keys[id].name,
     description |-> keys[id].description, created_at |-> keys[id].created_at,
     expires_at |-> keys[id].expires_at, is_active |-> keys[id].is_active,
     rate_limit |-> keys[id].rate_limit,
     allowed_endpoints |-> keys[id].allowed_endpoints,
     last_used_at |-> keys[id].last_used_at,
     usage_count |-> keys[id].usage_count, is_admin |-> keys[id].is_admin]

\* list_keys: the selected columns of every row, or of the active rows
list_keys(keys, active_only) ==
    {ListedRow(keys, id) : id \in {i \in 1..Len(keys) : ~active_only \/ keys[i].is_active}}

\* admin.py list_api_keys: reads the store and answers; nothing is written
HandleList(w) ==
    /\ req[w].pc = "handler" /\ req[w].endpoint = AdminList
    /\ \E active_only \in BOOLEAN :
        Answer(w, [req[w] EXCEPT !.dep = "list_api_keys"], HTTP_200_OK,
               Some(list_keys(api_keys, active_only)))
    /\ UNCHANGED <<api_keys, logs, now, origin, key_files, columns, self_revoked>>

\* admin.py get_key_info: the first row of list_keys (latest created_at
\* first, rows of one instant in any order) with the prefix of the path
HandleInfo(w) ==
    /\ req[w].pc = "handler" /\ req[w].endpoint \in AdminInfoPaths
    /\ LET key_prefix == SubSeq(req[w].endpoint, 3, Len(req[w].endpoint))
           keys == {k \in list_keys(api_keys, FALSE) : k.key_prefix = key_prefix}
           r == [req[w] EXCEPT !.dep = "get_key_info"]
       IN  IF keys = {}
           THEN Answer(w, r, HTTP_404_NOT_FOUND, None)
           ELSE \E k \in keys :
                   /\ \A o \in keys : o.created_at <= k.created_at
                   /\ Answer(w, r, HTTP_200_OK, Some(k))
    /\ UNCHANGED <<api_keys, logs, now, origin, key_files, columns, self_revoked>>

\* ocr.py recognize_ocr / detect_languages: no dependency on verify_api_key.
\* The X-API-Key header is not read (api_key stays empty whatever the request
\* carries), validate_key is not called, the handler body runs.
ServeUnguarded(w) ==
    /\ req[w].pc = "idle"
    /\ \E endpoint \in UnguardedPaths :
        Answer(w, [Idle EXCEPT !.dep = IF endpoint = OcrRecognize
                                       THEN "recognize_ocr" ELSE "detect_languages",
                               !.endpoint = endpoint],
               HTTP_200_OK, None)
    /\ UNCHANGED <<api_keys, logs, now, origin, key_files, columns, self_revoked>>

\* get_key_stats: the counts of one prefix with the columns of a credential
\* of that prefix when there is one, or the totals of the table.  SUM over
\* no row is NULL.
get_key_stats(keys, entries, key_prefix) ==
    IF key_prefix # None
    THEN LET of_prefix == {i \in 1..Len(entries) : entries[i].key_prefix = key_prefix[1]}
             stats == [total_requests |-> Cardinality(of_prefix),
                       unique_endpoints |->
                           Cardinality({entries[i].endpoint : i \in of_prefix})]
             hit == {i \in 1..Len(keys) : keys[i].key_prefix = key_prefix[1]}
         IN  IF hit = {} THEN stats
             ELSE LET key_info == keys[CHOOSE i \in hit : \A j \in hit : i <= j]
                  IN  stats @@ [usage_count |-> key_info.usage_count,
                                created_at |-> key_info.created_at,
                                is_active |-> key_info.is_active,
                                is_admin |-> key_info.is_admin]
    ELSE [total_keys |-> Len(keys),
          active_keys |-> IF keys = <<>> THEN None
                          ELSE Some(Cardinality({i \in 1..Len(keys) : keys[i].is_active})),
          admin_keys |-> IF keys = <<>> THEN None
                         ELSE Some(Cardinality({i \in 1..Len(keys) : keys[i].is_admin})),
          total_requests |-> IF keys = <<>> THEN None ELSE Some(TotalUsage(keys)),
          keys_used |-> Cardinality({keys[i].key_prefix : i \in 1..Len(keys)})]

\* admin.py get_stats: get_key_stats never returns None, the answer is 200
HandleStats(w) ==
    /\ req[w].pc = "handler" /\ req[w].endpoint = AdminStats
    /\ \E key_prefix \in {None} \cup {Some(p) : p \in Prefixes} :
        LET stats == get_key_stats(api_keys, logs, key_prefix)
            r == [req[w] EXCEPT !.dep = "get_stats", !.query = key_prefix]
        IN  IF key_prefix # None /\ stats = None
            THEN Answer(w, r, HTTP_404_NOT_FOUND, None)
            ELSE Answer(w, r, HTTP_200_OK, Some(stats))
    /\ UNCHANGED <<api_keys, logs, now, origin, key_files, columns, self_revoked>>

\* a row as the older version wrote it: no column is_admin
OldRow(api_key, active, used) ==
    LET row == NewRow(api_key,
                      CreateArgs("client", "", None, 10, NoList, FALSE), 0)
    IN  [c \in OldColumns |->
            IF c = "is_active" THEN active
            ELSE IF c = "usage_count" THEN used
            ELSE IF c = "last_used_at" THEN (IF used > 0 THEN Some(0) ELSE None)
            ELSE row[c]]

\* the log entry of a use of the old key
OldEntry ==
    [key_prefix |-> <<"ai_p1">>, endpoint |-> Gen, method |-> "POST",
     status_code |-> HTTP_200_OK]

\* the files the service may find when it starts: none, or one of the older
\* version with its rows and, for a key that was used, its log entry
OldFiles ==
    {[columns |-> {}, api_keys |-> <<>>, logs |-> <<>>],
     [columns |-> OldColumns, api_keys |-> <<>>, logs |-> <<>>]}
    \cup
    {[columns |-> OldColumns,
      api_keys |-> <<OldRow(<<"ai_p1", "a">>, f[1], IF f[2] THEN 1 ELSE 0)>>,
      logs |-> IF f[2] /\ f[3] THEN <<OldEntry>> ELSE <<>>] :
        f \in BOOLEAN \X BOOLEAN \X BOOLEAN}

\* the worker process is not running
Down == [Idle EXCEPT !.pc = "down"]

\* before the service starts on such a file
InitStore ==
    /\ \E f \in OldFiles :
        /\ columns = f.columns
        /\ api_keys = f.api_keys
        /\ logs = f.logs
        /\ origin = [i \in 1..Len(f.api_keys) |-> "old_version"]
    /\ now = 0
    /\ req = [w \in Workers |-> Down]
    /\ resp = None
    /\ key_files = {}
    /\ self_revoked = {}

\* faulty variant: _init_db creates the log table anew
OpenStore_NewLogTable(w) ==
    /\ req[w].pc \in {"down", "idle"}
    /\ api_keys' = migrate_db(api_keys, columns)
    /\ columns' = init_db(columns)
    /\ logs' = <<>>
    /\ req' = [req EXCEPT ![w] = Idle]
    /\ resp' = None
    /\ UNCHANGED <<now, origin, key_files, self_revoked>>

\* a worker process starts, or restarts between two requests: the module is
\* imported and APIKeyManager() runs _migrate_db and _init_db
OpenStore(w) ==
    /\ req[w].pc \in {"down", "idle"}
    /\ api_keys' = migrate_db(api_keys, columns)
    /\ columns' = init_db(columns)
    /\ req' = [req EXCEPT ![w] = Idle]
    /\ resp' = None
    /\ UNCHANGED <<logs, now, origin, key_files, self_revoked>>

Tick ==
    /\ now < MaxTime
    /\ now' = now + 1
    /\ resp' = None
    /\ UNCHANGED <<api_keys, logs, req, origin, key_files, columns, self_revoked>>

\* one request at a time, the clock running
Next ==
    \/ InitAdminScript(EnvSequential)
    \/ Tick
    \/ BeginRequest("w1", EnvSequential)
    \/ FinishValidate("w1", EnvSequential)
    \/ LogRequest("w1")
    \/ HandleCreate("w1", EnvSequential)
    \/ HandleSetActive("w1")
    \/ HandleList("w1")

Spec == Init /\ [][Next]_vars

\* requests served concurrently (several workers share the database file),
\* within one tick of the clock
NextConcurrent ==
    \/ InitAdminScript(EnvConcurrent)
    \/ \E w \in Workers : BeginRequest(w, EnvConcurrent)
    \/ \E w \in Workers : FinishValidate(w, EnvConcurrent)
    \/ \E w \in Workers : LogRequest(w)
    \/ \E w \in Workers : HandleCreate(w, EnvConcurrent)
    \/ \E w \in Workers : HandleSetActive(w)
    \/ \E w \in Workers : HandleList(w)

SpecConcurrent == Init /\ [][NextConcurrent]_vars

\* the end-to-end scenario, one request at a time
NextScenario ==
    \/ InitAdminScript(EnvScenario)
    \/ Tick
    \/ BeginRequest("w1", EnvScenario)
    \/ FinishValidate("w1", EnvScenario)
    \/ LogRequest("w1")
    \/ HandleCreate("w1", EnvScenario)
    \/ HandleSetActive("w1")
    \/ HandleList("w1")

SpecScenario == Init /\ [][NextScenario]_vars

\* admin requests served concurrently, creating keys
NextRace ==
    \/ InitAdminScript(EnvRace)
    \/ \E w \in Workers : BeginRequest(w, EnvRace)
    \/ \E w \in Workers : FinishValidate(w, EnvRace)
    \/ \E w \in Workers : LogRequest(w)
    \/ \E w \in Workers : HandleCreate(w, EnvRace)

SpecRace == Init /\ [][NextRace]_vars

\* the whole service, one request at a time
NextService ==
    \/ InitAdminScript(EnvService)
    \/ Tick
    \/ BeginRequest("w1", EnvService)
    \/ FinishValidate("w1", EnvService)
    \/ LogRequest("w1")
    \/ HandleCreate("w1", EnvService)
    \/ HandleSetActive("w1")
    \/ HandleList("w1")
    \/ HandleInfo("w1")
    \/ ServeUnguarded("w1")

SpecService == Init /\ [][NextService]_vars

\* the service started on a file it finds, one request at a time
NextStore ==
    \/ OpenStore("w1")
    \/ InitAdminScript(EnvStore)
    \/ BeginRequest("w1", EnvStore)
    \/ FinishValidate("w1", EnvStore)
    \/ LogRequest("w1")
    \/ HandleCreate("w1", EnvStore)
    \/ HandleSetActive("w1")
    \/ HandleList("w1")
    \/ HandleStats("w1")

SpecStore == InitStore /\ [][NextStore]_vars

\* =============================================================== claims
\* ------------------------------------------------ reading a step or state
\* the rows whose hash is that of the secret (at most one: key_hash is UNIQUE)
RowsOf(secret) == {i \in 1..Len(api_keys) : api_keys[i].key_hash = hash_key(secret)}

\* the step is validate_key's lookup for worker w, and it lets the call go on
LookupPasses(w) == req[w].pc = "idle" /\ req'[w].pc = "selected"

\* the step is validate_key's lookup, and it rejects the call (the worker stays
\* free; the response carries no row)
LookupRejects ==
    /\ resp' # None /\ resp'[1].dep = "validate_key" /\ resp'[1].key_data = None

\* the step is the rest of validate_key for worker w
Decides(w) == req[w].pc = "selected" /\ req'[w].pc # "selected"

\* what that step decided, and for which endpoint and require_admin
Decision(w) ==
    IF req'[w].pc = "validated"
    THEN [status |-> HTTP_200_OK, endpoint |-> req'[w].endpoint,
          require_admin |-> req'[w].require_admin]
    ELSE [status |-> resp'[1].status, endpoint |-> resp'[1].endpoint,
          require_admin |-> resp'[1].require_admin]

\* the response in this state is validate_key's own decision on a fetched row
IsDecision(r) ==
    /\ r.key_data # None
    /\ r.dep \in {"validate_key", "verify_api_key", "verify_admin_key"}

\* path is one of the comma-separated pieces of text
InList(text, path) ==
    /\ \A k \in 1..Len(path) : path[k] # Comma
    /\ \E a \in 0..Len(text) :
        /\ a + Len(path) <= Len(text)
        /\ SubSeq(text, a + 1, a + Len(path)) = path
        /\ a = 0 \/ text[a] = Comma
        /\ a + Len(path) = Len(text) \/ text[a + Len(path) + 1] = Comma

\* ---------------------------------------------------------------- C1
\* the reference decision function of the claim: the five checks in order,
\* the first that fails deciding
RefValidate(keys, clock, secret, path, admin) ==
    LET m == {i \in 1..Len(keys) :
                 keys[i].key_hash = hash_key(secret) /\ keys[i].is_active}
    IN  IF secret = NoKey THEN 401
        ELSE IF m = {} THEN 401
        ELSE LET c == keys[CHOOSE i \in m : TRUE]
             IN  IF admin /\ ~c.is_admin THEN 403
                 ELSE IF c.expires_at # None /\ clock > c.expires_at[1] THEN 401
                 ELSE IF c.allowed_endpoints # Star
                         /\ ~InList(c.allowed_endpoints, path) THEN 403
                 ELSE 200

\* C1: every validate_key call decides as the reference function does on the
\* store and clock of the moment: a call rejected at the lookup is one the
\* reference rejects with 401 for every path and require_admin, a call that
\* passes the lookup is one the reference does not reject at its first two
\* checks, and the decision on the fetched row is the reference's.
C1_ValidateIsReference ==
    [][/\ LookupRejects =>
            /\ resp'[1].status = 401
            /\ \A p \in Paths, a \in BOOLEAN :
                   RefValidate(api_keys, now, resp'[1].api_key, p, a) = 401
       /\ \A w \in Workers :
            /\ LookupPasses(w) =>
                   /\ req'[w].api_key # NoKey
                   /\ \E i \in RowsOf(req'[w].api_key) :
                          api_keys[i].is_active /\ req'[w].key_data = Some(api_keys[i])
            /\ Decides(w) =>
                   Decision(w).status =
                       RefValidate(api_keys, now, req[w].api_key,
                                   Decision(w).endpoint, Decision(w).require_admin)
      ]_vars

\* C1 witness: a non-admin key that is also expired and out of scope is
\* presented with require_admin, and the answer is 403 (the admin check is first)
C1_Witness ==
    /\ resp # None /\ IsDecision(resp[1])
    /\ resp[1].status = 403 /\ resp[1].require_admin
    /\ ~resp[1].key_data[1].is_admin
    /\ resp[1].key_data[1].expires_at # None
    /\ now > resp[1].key_data[1].expires_at[1]
    /\ resp[1].key_data[1].allowed_endpoints = Gen /\ resp[1].endpoint = Ocr

\* ---------------------------------------------------------------- C2
\* the secret's credential is in the store and is not active
Inactive(secret) == \E i \in RowsOf(secret) : ~api_keys[i].is_active

\* C2 (as stated): no validate_key call for a revoked credential returns
\* success, a call in flight while the revocation commits included: whenever
\* validate_key has just returned success, the credential is active.
C2_NoSuccessOnceRevoked ==
    (resp # None /\ resp[1].dep = "validate_key" /\ resp[1].status = HTTP_200_OK)
        => ~Inactive(resp[1].api_key)

\* ---------------------------------------------------------------- C3
\* C3: a validate_key call made while the credential of the presented secret
\* has is_active = 0 never passes the lookup, and a call rejected there is
\* answered 401, whatever the other fields of the credential.
C3_InactiveNeverPasses ==
    [][/\ \A w \in Workers : LookupPasses(w) => ~Inactive(req'[w].api_key)
       /\ (LookupRejects /\ Inactive(resp'[1].api_key)) =>
              resp'[1].status = HTTP_401_UNAUTHORIZED
      ]_vars

\* C3 witness: the secret of a deactivated admin credential with no expiry and
\* no endpoint restriction has just been rejected with 401
C3_Witness ==
    /\ resp # None /\ resp[1].dep = "validate_key" /\ resp[1].key_data = None
    /\ resp[1].status = HTTP_401_UNAUTHORIZED
    /\ \E i \in RowsOf(resp[1].api_key) :
          /\ ~api_keys[i].is_active /\ api_keys[i].is_admin
          /\ api_keys[i].expires_at = None /\ api_keys[i].allowed_endpoints = Star
          /\ api_keys[i].usage_count > 0

\* ---------------------------------------------------------------- C4
\* the response in this state is that of a create, giving out a new secret
IsCreate(r) == r.dep \in {"create_admin_key", "create_api_key"} /\ r.body # None

\* the list given to create_key restricts nothing
Unrestricted(l) == ~l.given \/ l.val = <<>> \/ l.val = <<Star>>

\* path is allowed by the list given to create_key, as the store keeps it
Permits(l, path) ==
    Unrestricted(l) \/ \E k \in 1..Len(l.val) : InList(l.val[k], path)

\* the row is what the arguments of create_key ask for
MatchesArgs(k, a) ==
    /\ k.name = a.name /\ k.description = a.description
    /\ k.rate_limit = a.rate_limit /\ k.is_admin = a.is_admin
    /\ k.allowed_endpoints = IF a.allowed_endpoints.given /\ a.allowed_endpoints.val # <<>>
                             THEN Join(Comma, a.allowed_endpoints.val) ELSE Star
    /\ k.expires_at = IF a.expires_in_days = None THEN None
                      ELSE Some(k.created_at + a.expires_in_days[1])

\* C4 (as stated): a validate_key call made right after create_key, with the
\* secret it returned, succeeds for every path and every require_admin.
C4_FreshKeyAlwaysAccepted ==
    (resp # None /\ IsDecision(resp[1]) /\ resp[1].created_with # None
       /\ now = resp[1].key_data[1].created_at)
        => resp[1].status = HTTP_200_OK

\* C4 (amended): right after create_key the secret it returned passes the
\* lookup; the call then succeeds exactly when require_admin is unset or the
\* key was created as admin, and the path is allowed by the list given at
\* creation (absent, empty and ["*"] allow every path); the row returned holds
\* the name, description, rate limit and admin flag given, the list joined
\* with commas, and an expiry of the creation time plus expires_in_days.
C4_FreshKeyAcceptedWithinPolicy ==
    [][/\ (resp' # None /\ IsCreate(resp'[1])) =>
             \E i \in 1..Len(api_keys') :
                 /\ api_keys'[i].key_hash = hash_key(resp'[1].body[1])
                 /\ api_keys'[i].is_active
                 /\ MatchesArgs(api_keys'[i], resp'[1].created_with[1])
       /\ \A w \in Workers :
            (Decides(w) /\ req[w].created_with # None
               /\ now = req[w].key_data[1].created_at) =>
                LET a == req[w].created_with[1]
                    d == Decision(w)
                IN  /\ d.status = HTTP_200_OK <=>
                           /\ d.require_admin => a.is_admin
                           /\ Permits(a.allowed_endpoints, d.endpoint)
                    /\ MatchesArgs(req[w].key_data[1], a)
      ]_vars

\* C4 witness: a non-admin key created for /generate and /ocr with 30 days has
\* just been accepted on /ocr, in the instant of its creation
C4_Witness ==
    /\ resp # None /\ IsDecision(resp[1]) /\ resp[1].created_with # None
    /\ resp[1].status = HTTP_200_OK /\ resp[1].endpoint = Ocr
    /\ resp[1].created_with[1].allowed_endpoints = ListOf(<<Gen, Ocr>>)
    /\ ~resp[1].created_with[1].is_admin
    /\ resp[1].key_data[1].expires_at = Some(now + 30)

\* ---------------------------------------------------------------- C5
\* the step completes a successful validate_key call of worker w
Accepts(w) == Decides(w) /\ Decision(w).status = HTTP_200_OK

\* C5: every step leaves usage_count and last_used_at of every credential
\* alone, except a successful validation of that credential, which adds
\* exactly one to usage_count and sets last_used_at to the time of the call;
\* a new credential starts at zero, never used.
C5_UsageCountsSuccesses ==
    [][/\ Len(api_keys') >= Len(api_keys)
       /\ \A i \in 1..Len(api_keys) :
            LET n == Cardinality({w \in Workers :
                        Accepts(w) /\ hash_key(req[w].api_key) = api_keys[i].key_hash})
            IN  /\ api_keys'[i].usage_count = api_keys[i].usage_count + n
                /\ api_keys'[i].last_used_at =
                       IF n > 0 THEN Some(now) ELSE api_keys[i].last_used_at
       /\ \A i \in (Len(api_keys) + 1)..Len(api_keys') :
            api_keys'[i].usage_count = 0 /\ api_keys'[i].last_used_at = None
      ]_vars

\* C5 witness: a credential accepted twice, the second time later than its
\* creation, shows a count of two and the time of the second call
C5_Witness ==
    /\ resp # None /\ IsDecision(resp[1]) /\ resp[1].status = HTTP_200_OK
    /\ resp[1].dep = "validate_key"
    /\ \E i \in RowsOf(resp[1].api_key) :
          /\ api_keys[i].usage_count = 2
          /\ api_keys[i].last_used_at = Some(now)
          /\ now > api_keys[i].created_at

\* ---------------------------------------------------------------- C6
\* C6: for a credential with an expiry, a validate_key call never succeeds
\* once the clock is past expires_at, and is then answered 401 (the admin
\* check, which comes first, not rejecting it); up to and at expires_at the
\* call succeeds when the admin and endpoint checks pass.  The expiry is the
\* creation time plus expires_in_days, no step changes it, and the clock
\* never goes back: once expired, expired for ever, whatever is revoked or
\* activated.
C6_ExpiryIsFinal ==
    [][/\ now' >= now
       /\ \A i \in 1..Len(api_keys) :
            /\ api_keys'[i].expires_at = api_keys[i].expires_at
            /\ api_keys'[i].created_at = api_keys[i].created_at
       /\ \A w \in Workers : \A i \in RowsOf(req[w].api_key) :
            (Decides(w) /\ api_keys[i].expires_at # None) =>
                LET k == api_keys[i]
                    d == Decision(w)
                    expired == now > k.expires_at[1]
                    admin_ok == d.require_admin => k.is_admin
                    scope_ok == k.allowed_endpoints = Star
                                \/ InList(k.allowed_endpoints, d.endpoint)
                IN  /\ expired => d.status # HTTP_200_OK
                    /\ (expired /\ admin_ok) => d.status = HTTP_401_UNAUTHORIZED
                    /\ (~expired /\ admin_ok /\ scope_ok) => d.status = HTTP_200_OK
      ]_vars

\* C6 witness: a credential that lives one day, accepted before its deadline,
\* is rejected with 401 two days after its creation, still active
C6_Witness ==
    /\ resp # None /\ IsDecision(resp[1])
    /\ resp[1].status = HTTP_401_UNAUTHORIZED
    /\ \E i \in RowsOf(resp[1].api_key) :
          /\ api_keys[i].expires_at = Some(api_keys[i].created_at + 1)
          /\ now = api_keys[i].created_at + 2
          /\ api_keys[i].is_active /\ api_keys[i].usage_count > 0

\* ---------------------------------------------------------------- C7
\* the response is a decision of validate_key on a key created the instant
\* before, which the admin check lets through
FreshDecision(r) ==
    /\ IsDecision(r) /\ r.created_with # None
    /\ now = r.key_data[1].created_at
    /\ r.require_admin => r.key_data[1].is_admin

\* C7 (as stated): a key created with a non-empty list S other than the
\* sentinel succeeds on path p exactly when p is one of the entries of S as
\* given to create_key, and is answered 403 otherwise; a key created with no
\* list, an empty list or the sentinel succeeds on every path.
C7_AllowedIffEntryAsGiven ==
    (resp # None /\ FreshDecision(resp[1])) =>
        LET l == resp[1].created_with[1].allowed_endpoints
        IN  IF Unrestricted(l) THEN resp[1].status = HTTP_200_OK
            ELSE IF resp[1].endpoint \in Range(l.val)
                 THEN resp[1].status = HTTP_200_OK
                 ELSE resp[1].status = HTTP_403_FORBIDDEN

\* ---------------------------------------------------------------- C8
\* entry is the beginning of path
StartsWith(path, entry) ==
    Len(entry) <= Len(path) /\ SubSeq(path, 1, Len(entry)) = entry

\* the row is restricted, and the admin and expiry checks let the call through
ReachesScopeCheck(k, require_admin) ==
    /\ k.allowed_endpoints # Star
    /\ require_admin => k.is_admin
    /\ k.expires_at = None \/ now <= k.expires_at[1]

Scoped == {i \in 1..Len(api_keys) : origin[i] = "admin_route"}

\* C9: in the end-to-end scenario a create answered 201 leaves the new key in
\* the store, active; the key created through the admin route is the
\* non-admin key asked for (/generate only, 30 days, rate limit 10); a
\* validation of it on /generate without require_admin succeeds and on /ocr is
\* answered 403; a revoke answered 200 leaves every key of the prefix
\* inactive, and a validation of the revoked key is answered 401.
C9_EndToEnd ==
    /\ \A i \in Scoped :
          /\ ~api_keys[i].is_admin /\ api_keys[i].rate_limit = 10
          /\ api_keys[i].allowed_endpoints = Gen
          /\ api_keys[i].expires_at = Some(api_keys[i].created_at + 30)
    /\ resp # None =>
          /\ (resp[1].dep = "create_api_key" /\ resp[1].status = HTTP_201_CREATED) =>
                \E i \in RowsOf(resp[1].body[1]) : i \in Scoped /\ api_keys[i].is_active
          /\ (resp[1].dep = "revoke_api_key" /\ resp[1].status = HTTP_200_OK) =>
                \A i \in 1..Len(api_keys) :
                    api_keys[i].key_prefix = resp[1].body[1] => ~api_keys[i].is_active
          /\ (IsDecision(resp[1]) /\ RowsOf(resp[1].api_key) \subseteq Scoped
                /\ ~resp[1].require_admin) =>
                /\ resp[1].endpoint = Gen => resp[1].status = HTTP_200_OK
                /\ resp[1].endpoint = Ocr => resp[1].status = HTTP_403_FORBIDDEN
          /\ (resp[1].dep = "validate_key" /\ Inactive(resp[1].api_key)) =>
                resp[1].status = HTTP_401_UNAUTHORIZED

\* C9 witness: the scoped key, accepted once, then revoked by the admin key
\* (used twice: to create and to revoke), has just been answered 401
C9_Witness ==
    /\ resp # None /\ resp[1].dep = "validate_key"
    /\ resp[1].status = HTTP_401_UNAUTHORIZED
    /\ Len(logs) = 2 /\ logs[1].endpoint = AdminCreate /\ logs[2].endpoint = AdminRevoke
    /\ \E i \in RowsOf(resp[1].api_key) :
          /\ i \in Scoped /\ ~api_keys[i].is_active /\ api_keys[i].usage_count = 1
    /\ \E j \in 1..Len(api_keys) :
          origin[j] = "init_admin" /\ api_keys[j].usage_count = 2

\* --------------------------------------------------------------- C10
\* the operations of the admin router, by the name their answer carries
HandlerDeps ==
    {"create_api_key", "revoke_api_key", "activate_api_key", "list_api_keys"}

\* the step adds a credential or changes some is_active
ChangesStore ==
    \/ Len(api_keys') # Len(api_keys)
    \/ \E i \in 1..Len(api_keys) : api_keys'[i].is_active # api_keys[i].is_active

\* worker w is inside an admin operation, let in by verify_admin_key on an
\* admin credential
AdminInHandler(w) ==
    /\ req[w].pc = "handler" /\ req[w].require_admin
    /\ req[w].key_data # None /\ req[w].key_data[1].is_admin

\* C10 (as stated, last part): every credential in the store was created by
\* an admin-authenticated caller.
C10_AllCreatedByAdmin == \A i \in 1..Len(origin) : origin[i] = "admin_route"

\* C10 (amended): an operation of the admin router runs only for a request
\* that validate_key accepted with require_admin on an admin credential; a
\* step adds a credential or changes an is_active only inside such an
\* operation, or in the init script, which calls create_key with no
\* credential at all and creates an admin credential; so every credential in
\* the store comes from an admin-authenticated caller or from that script.
C10_AdminOnlyOrInitScript ==
    [][/\ \A w \in Workers :
            /\ (req'[w].pc = "validated" /\ req[w].pc # "validated") =>
                   RefValidate(api_keys, now, req[w].api_key,
                               req'[w].endpoint, req'[w].require_admin) = 200
            /\ (req'[w].pc = "handler" /\ req[w].pc # "handler") =>
                   /\ req[w].pc = "validated" /\ req'[w].require_admin
                   /\ req'[w].key_data[1].is_admin
       /\ (resp' # None /\ resp'[1].dep \in HandlerDeps) =>
              \E w \in Workers : AdminInHandler(w) /\ req'[w].pc = "idle"
       /\ ChangesStore =>
              \/ \E w \in Workers : AdminInHandler(w) /\ req'[w].pc = "idle"
              \/ /\ origin' = Append(origin, "init_admin")
                 /\ api_keys'[Len(api_keys')].is_admin
                 /\ ~\E i \in 1..Len(api_keys) :
                        api_keys'[i].is_active # api_keys[i].is_active
       /\ Len(origin') = Len(api_keys')
       /\ \A i \in 1..Len(origin') : origin'[i] \in {"init_admin", "admin_route"}
       /\ \A i \in 1..Len(origin) : origin'[i] = origin[i]
       /\ (Len(origin') > Len(origin) /\ origin'[Len(origin')] = "admin_route") =>
              \E w \in Workers : AdminInHandler(w) /\ req'[w].pc = "idle"
      ]_vars

\* C10 witness: the store holds the script's admin key and a key created
\* through the admin route, and a non-admin key has just been turned away
\* from create with 403
C10_Witness ==
    /\ origin = <<"init_admin", "admin_route">>
    /\ resp # None /\ resp[1].dep = "verify_admin_key"
    /\ resp[1].endpoint = AdminCreate /\ resp[1].status = HTTP_403_FORBIDDEN
    /\ ~resp[1].key_data[1].is_admin

\* --------------------------------------------------------------- C11
\* the step is a create through the admin route that ended in an error
CreateFails == resp' # None /\ resp'[1].dep = "create_api_key"
               /\ resp'[1].status = HTTP_500_INTERNAL_SERVER_ERROR

\* C11: no two rows ever hold the same key_hash, creates running at the same
\* time included; a create whose INSERT meets an existing hash ends in an
\* error and leaves the table as it was, and a create that succeeds adds one
\* row with a hash not yet in the table and leaves every other row as it was.
C11_HashUnique ==
    [][/\ \A i, j \in 1..Len(api_keys') :
            api_keys'[i].key_hash = api_keys'[j].key_hash => i = j
       /\ CreateFails => api_keys' = api_keys
       /\ Len(api_keys') # Len(api_keys) =>
            /\ Len(api_keys') = Len(api_keys) + 1
            /\ \A i \in 1..Len(api_keys) : api_keys'[i] = api_keys[i]
            /\ \A i \in 1..Len(api_keys) :
                   api_keys[i].key_hash # api_keys'[Len(api_keys')].key_hash
      ]_vars

\* C11 witness: of two creates in progress at the same time, one has just
\* failed on a hash already in the table, and the other is still to insert
C11_Witness ==
    /\ resp # None /\ resp[1].dep = "create_api_key"
    /\ resp[1].status = HTTP_500_INTERNAL_SERVER_ERROR
    /\ Len(api_keys) >= 1
    /\ \E w \in Workers : req[w].pc = "handler" /\ req[w].endpoint = AdminCreate

\* --------------------------------------------------------------- C12
\* some credential has the prefix
HasPrefix(key_prefix) ==
    \E i \in 1..Len(api_keys) : api_keys[i].key_prefix = key_prefix

\* the table after every credential of the prefix got is_active = active
WithActive(key_prefix, active) ==
    [i \in 1..Len(api_keys) |->
        IF api_keys[i].key_prefix = key_prefix
        THEN [api_keys[i] EXCEPT !.is_active = active] ELSE api_keys[i]]

\* C12: a revoke or activate is answered 200 exactly when some credential has
\* the prefix, and then sets is_active of the credentials of that prefix and
\* nothing else; when none has it the answer is 404 and the table is
\* unchanged.  An info lookup is answered 200 with a credential of the prefix
\* when there is one, and 404 when there is none.
C12_UnknownPrefixIsNotFound ==
    [][(resp' # None) =>
          /\ resp'[1].dep \in {"revoke_api_key", "activate_api_key"} =>
                LET p == resp'[1].body[1]
                IN  IF HasPrefix(p)
                    THEN /\ resp'[1].status = HTTP_200_OK
                         /\ api_keys' = WithActive(p, resp'[1].dep = "activate_api_key")
                    ELSE /\ resp'[1].status = HTTP_404_NOT_FOUND
                         /\ api_keys' = api_keys
          /\ resp'[1].dep = "get_key_info" =>
                LET p == SubSeq(resp'[1].endpoint, 3, Len(resp'[1].endpoint))
                IN  /\ api_keys' = api_keys
                    /\ IF HasPrefix(p)
                       THEN /\ resp'[1].status = HTTP_200_OK
                            /\ resp'[1].body[1].key_prefix = p
                       ELSE resp'[1].status = HTTP_404_NOT_FOUND
      ]_vars

\* C12 witness: with credentials in the store, a revoke of a prefix that none
\* of them has was just answered 404
C12_Witness ==
    /\ resp # None /\ resp[1].dep = "revoke_api_key"
    /\ resp[1].status = HTTP_404_NOT_FOUND
    /\ Len(api_keys) = 2 /\ ~HasPrefix(resp[1].body[1])

\* --------------------------------------------------------------- C13
\* worker w leaves the point between validate_key's return and the handler:
\* the boundary has made its call of log_request
Logs(w) == req[w].pc = "validated" /\ req'[w].pc # "validated"

\* the last entry of the log after the step is the one of w's request
EntryOf(w) ==
    /\ Len(logs') = Len(logs) + 1
    /\ SubSeq(logs', 1, Len(logs)) = logs
    /\ logs'[Len(logs')].key_prefix = req[w].key_data[1].key_prefix
    /\ logs'[Len(logs')].endpoint = req[w].endpoint
    /\ logs'[Len(logs')].method = Method(req[w].endpoint)

\* a validation was just rejected
Rejects ==
    /\ resp' # None
    /\ resp'[1].dep \in {"validate_key", "verify_api_key", "verify_admin_key"}
    /\ resp'[1].status \in {HTTP_401_UNAUTHORIZED, HTTP_403_FORBIDDEN}

\* C13 as stated: every validation that succeeds at verify_api_key or
\* verify_admin_key appends exactly one entry with the key's prefix and the
\* request's path and method; a rejected validation appends none.
C13_ExactlyOneEntry ==
    [][/\ \A w \in Workers : Logs(w) => EntryOf(w)
       /\ Rejects => logs' = logs
      ]_vars

\* C13 amended: the boundary makes one append per successful validation; the
\* log gains exactly that one entry when the append succeeds and stays as it
\* was when the append fails.  Rejected validations, and every other step,
\* leave the log unchanged.
C13_OneEntryUnlessAppendFails ==
    [][/\ \A w \in Workers : Logs(w) => (EntryOf(w) \/ logs' = logs)
       /\ Rejects => logs' = logs
       /\ logs' # logs => \E w \in Workers : Logs(w) /\ EntryOf(w)
      ]_vars

\* C13 witness: verify_api_key has just returned the credential and the log
\* holds the one entry of that request
C13_Witness ==
    /\ resp # None /\ resp[1].dep = "verify_api_key" /\ resp[1].status = HTTP_200_OK
    /\ Len(logs) = 1
    /\ logs[1].key_prefix = key_prefix_of(resp[1].api_key)
    /\ logs[1].endpoint = resp[1].endpoint

\* --------------------------------------------------------------- C14
\* the UPDATE of w's validation is in the table
UsageCommitted(w) ==
    \E i \in 1..Len(api_keys') :
        /\ api_keys'[i].key_hash = hash_key(req[w].api_key)
        /\ api_keys'[i].usage_count >= 1
        /\ api_keys'[i].last_used_at # None

\* C14: whether log_request wrote its entry or failed, the boundary hands on
\* the validated credential: verify_api_key returns it (200), verify_admin_key
\* passes it to the handler; the table, with the usage update of the
\* validation, is left as it was.
C14_LogFailureIsSwallowed ==
    [][\A w \in Workers : Logs(w) =>
          /\ api_keys' = api_keys
          /\ UsageCommitted(w)
          /\ IF req[w].dep = "verify_admin_key"
             THEN /\ req'[w].pc = "handler"
                  /\ req'[w].key_data = req[w].key_data
                  /\ resp' = None
             ELSE /\ resp' # None
                  /\ resp'[1].status = HTTP_200_OK
                  /\ resp'[1].body = req[w].key_data
                  /\ resp'[1].body # None
      ]_vars

\* C14 witness: log_request failed (the log is empty) and verify_api_key has
\* just returned the credential, whose usage was counted
C14_Witness ==
    /\ resp # None /\ resp[1].dep = "verify_api_key" /\ resp[1].status = HTTP_200_OK
    /\ ~resp[1].logged /\ logs = <<>>
    /\ resp[1].body # None
    /\ \E i \in 1..Len(api_keys) :
          /\ api_keys[i].key_hash = hash_key(resp[1].api_key)
          /\ api_keys[i].usage_count = 1

\* --------------------------------------------------------------- C15
\* C15 as stated: the entry written for a validated request carries the
\* status the client receives.  One request at a time, the last entry of the
\* log is the one of the request just answered.
C15_EntryHasResolvedStatus ==
    (/\ resp # None
     /\ resp[1].dep \in {"create_api_key", "revoke_api_key", "activate_api_key",
                         "list_api_keys"}
     /\ resp[1].logged)
        => /\ logs # <<>>
           /\ logs[Len(logs)].endpoint = resp[1].endpoint
           /\ logs[Len(logs)].status_code = resp[1].status

\* --------------------------------------------------------------- C16
\* the columns of a credential handed out of the store
Columns(key_data) == DOMAIN key_data

\* C16 as stated: key_hash is in no value the store hands out: not in the
\* credential validate_key returns (to its caller, or through verify_api_key
\* and verify_admin_key to the route handler), and not in a row of list_keys.
C16_HashStaysInStore ==
    /\ \A w \in Workers :
          req[w].pc \in {"validated", "handler"}
              => "key_hash" \notin Columns(req[w].key_data[1])
    /\ (/\ resp # None
        /\ resp[1].dep \in {"validate_key", "verify_api_key"}
        /\ resp[1].status = HTTP_200_OK)
            => "key_hash" \notin Columns(resp[1].body[1])
    /\ (resp # None /\ resp[1].dep = "list_api_keys")
            => \A k \in resp[1].body[1] : "key_hash" \notin Columns(k)

\* --------------------------------------------------------------- C17
\* C17 as stated: the secret is seen only as the value create_key returns.
\* No row, no entry of the log and no file holds it, and no answer other than
\* the one of the creation carries it.
C17_SecretOnlyReturnedByCreate ==
    \A s \in Secrets :
        /\ \A i \in 1..Len(api_keys) :
              api_keys[i].key_hash # s /\ api_keys[i].key_prefix # s
        /\ \A i \in 1..Len(logs) : logs[i].key_prefix # s
        /\ \A f \in key_files : f.api_key # s
        /\ (resp # None /\ resp[1].body # None) =>
              /\ resp[1].dep \in {"validate_key", "verify_api_key", "get_key_info"}
                    => resp[1].body[1].key_prefix # s
              /\ resp[1].dep \in {"revoke_api_key", "activate_api_key"}
                    => resp[1].body[1] # s
              /\ resp[1].dep = "list_api_keys"
                    => \A k \in resp[1].body[1] : k.key_prefix # s

\* --------------------------------------------------------------- C18
\* C18: when a statement of validate_key fails (the SELECT, or the UPDATE
\* after every check passed) the call ends in an error: the answer is 500 and
\* carries no credential, the table and the log are as before, the worker is
\* free again (nothing is retried); and a request that went on to the log or
\* to a handler met no failure.
C18_FailClosed ==
    [][/\ (resp' # None /\ resp'[1].fault) =>
              /\ resp'[1].status = HTTP_500_INTERNAL_SERVER_ERROR
              /\ resp'[1].body = None
              /\ api_keys' = api_keys
              /\ logs' = logs
              /\ \A w \in Workers : req'[w] # req[w] => req'[w] = Idle
       /\ \A w \in Workers :
              (req'[w].pc \in {"validated", "handler"} /\ req[w].pc = "selected")
                  => /\ ~req'[w].fault
                     /\ api_keys' = UpdateUsage(api_keys, hash_key(req[w].api_key), now)
       /\ (resp' # None /\ resp'[1].status = HTTP_200_OK
           /\ resp'[1].dep \in {"validate_key", "verify_api_key", "verify_admin_key"})
              => ~resp'[1].fault
      ]_vars

\* C18 witness: the row was fetched and passed every check, the UPDATE of the
\* usage failed, and the request was answered 500 with the usage not counted
C18_Witness ==
    /\ resp # None /\ resp[1].fault
    /\ resp[1].dep = "verify_api_key"
    /\ resp[1].status = HTTP_500_INTERNAL_SERVER_ERROR
    /\ resp[1].key_data # None
    /\ \E i \in 1..Len(api_keys) :
          /\ api_keys[i].key_hash = hash_key(resp[1].api_key)
          /\ api_keys[i].is_active /\ api_keys[i].usage_count = 0

\* --------------------------------------------------------------- C19
\* the routers that serve inference
InferenceRouters == {"/generate", "/transcribe", "/embeddings", "/ocr"}

\* C19 as stated: the service has let a request through to a handler of an
\* inference router only if validate_key accepted its X-API-Key for the path.
C19_ValidatedBeforeWork ==
    (/\ resp # None
     /\ resp[1].dep # "validate_key"
     /\ resp[1].endpoint # <<>>
     /\ Head(resp[1].endpoint) \in InferenceRouters
     /\ resp[1].status = HTTP_200_OK)
        => /\ resp[1].dep = "verify_api_key"
           /\ resp[1].key_data # None
           /\ resp[1].key_data[1].key_hash = hash_key(resp[1].api_key)

\* --------------------------------------------------------------- C20
\* row i keeps what identifies it
SameIdentity(i) ==
    /\ api_keys'[i].key_hash = api_keys[i].key_hash
    /\ api_keys'[i].key_prefix = api_keys[i].key_prefix
    /\ api_keys'[i].created_at = api_keys[i].created_at
    /\ api_keys'[i].name = api_keys[i].name
    /\ api_keys'[i].expires_at = api_keys[i].expires_at
    /\ api_keys'[i].allowed_endpoints = api_keys[i].allowed_endpoints
    /\ api_keys'[i].is_admin = api_keys[i].is_admin

\* C20: no step removes a row; the row with a given id keeps its key_hash,
\* key_prefix, created_at, name, expires_at, allowed_endpoints and is_admin;
\* and a revocation changes nothing but is_active, which it clears on the
\* rows of the prefix.
C20_RowsKeptIdentityFixed ==
    [][/\ Len(api_keys') >= Len(api_keys)
       /\ \A i \in 1..Len(api_keys) : SameIdentity(i)
       /\ (resp' # None /\ resp'[1].dep = "revoke_api_key") =>
             /\ Len(api_keys') = Len(api_keys)
             /\ \A i \in 1..Len(api_keys) :
                   api_keys'[i] =
                      [api_keys[i] EXCEPT !.is_active =
                          api_keys[i].is_active
                          /\ api_keys[i].key_prefix # resp'[1].body[1]]
      ]_vars

\* C20 witness: a used credential was just revoked; its row is still in the
\* table, inactive, next to another row
C20_Witness ==
    /\ resp # None /\ resp[1].dep = "revoke_api_key" /\ resp[1].status = HTTP_200_OK
    /\ Len(api_keys) = 2
    /\ \E i \in 1..Len(api_keys) :
          /\ api_keys[i].key_prefix = resp[1].body[1]
          /\ ~api_keys[i].is_active
          /\ api_keys[i].usage_count >= 1

\* --------------------------------------------------------------- C21
\* C21: no step shortens the log or alters an entry it holds: the log after a
\* step begins with the log before it.  The steps are the validations, the
\* creations, revoke, activate, list, stats and the opening of the store.
C21_LogAppendOnly ==
    [][/\ Len(logs') >= Len(logs)
       /\ SubSeq(logs', 1, Len(logs)) = logs
      ]_vars

\* C21 witness: the store was opened on a file of the older version that held
\* a log entry; the entry is still the first one and a request has added
\* another behind it
C21_Witness ==
    /\ Len(logs) = 2
    /\ logs[1].key_prefix = <<"ai_p1">> /\ logs[1].endpoint = Gen
    /\ logs[2].endpoint \in AdminPaths \cup {AdminStats}
    /\ "is_admin" \in columns
    /\ origin # <<>> /\ origin[1] = "old_version"

\* --------------------------------------------------------------- C22
\* the store is opened in this step: a process starts or restarts, or the
\* init script runs
Opens ==
    \/ /\ resp' = None
       /\ req["w1"].pc \in {"down", "idle"} /\ req'["w1"].pc = "idle"
    \/ resp' # None /\ resp'[1].dep = "create_admin_key"

\* C22: opening the store keeps every row with the value of each column it
\* had; a table without is_admin gets the column, FALSE in every row; the log
\* is kept; the active keys of the file validate as before; and on a table
\* that has the column, opening changes no row.  The schema only ever grows.
C22_MigrationKeepsRows ==
    [][/\ columns \subseteq columns' \/ columns = {}
       /\ Opens =>
             /\ Len(api_keys') >= Len(api_keys)
             /\ logs' = logs
             /\ "is_admin" \in columns'
             /\ \A i \in 1..Len(api_keys) :
                   /\ \A c \in columns : api_keys'[i][c] = api_keys[i][c]
                   /\ DOMAIN api_keys'[i] = columns'
                   /\ "is_admin" \notin columns => api_keys'[i].is_admin = FALSE
                   /\ api_keys[i].is_active =>
                         /\ SelectActive(api_keys', api_keys[i].key_hash)
                               = Some(api_keys'[i])
                         /\ PolicyStatus(api_keys'[i], Gen, FALSE, now) = HTTP_200_OK
             /\ "is_admin" \in columns =>
                   SubSeq(api_keys', 1, Len(api_keys)) = api_keys
       /\ ~Opens => columns' = columns
      ]_vars

\* C22 witness: a key of the older version, used once before, has been
\* migrated and has just been validated again
C22_Witness ==
    /\ resp # None /\ resp[1].dep = "validate_key" /\ resp[1].status = HTTP_200_OK
    /\ origin # <<>> /\ origin[1] = "old_version"
    /\ resp[1].api_key = <<"ai_p1", "a">>
    /\ DOMAIN api_keys[1] = ApiKeysColumns
    /\ api_keys[1].is_admin = FALSE
    /\ api_keys[1].usage_count = 2

\* --------------------------------------------------------------- C23
\* the expiries and scopes a credential may have
Expiries == {None} \cup {Some(d) : d \in 0..(MaxTime + 1)}
Scopes == {Star, Gen, Ocr, Join(Comma, <<Gen, Ocr>>)}

\* C23: when validate_key decides with require_admin on the fetched row of a
\* key that is not an admin key, the answer is 403 with no body, nothing is
\* written, and the decision would be the same 403 for that row with any
\* other expiry and any other scope.
C23_ForbiddenWhateverExpiryAndScope ==
    [][\A w \in Workers :
          (/\ Decides(w)
           /\ Decision(w).require_admin
           /\ ~req[w].key_data[1].is_admin)
              => /\ Decision(w).status = HTTP_403_FORBIDDEN
                 /\ resp' # None /\ resp'[1].body = None
                 /\ api_keys' = api_keys /\ logs' = logs
                 /\ \A e \in Expiries, a \in Scopes :
                       PolicyStatus([req[w].key_data[1] EXCEPT
                                        !.expires_at = e, !.allowed_endpoints = a],
                                    Decision(w).endpoint, TRUE, now)
                           = HTTP_403_FORBIDDEN
      ]_vars

\* C23 witness: a non-admin key that has expired and whose scope does not
\* hold the path was presented on an admin route and got 403
C23_Witness ==
    /\ resp # None /\ IsDecision(resp[1])
    /\ resp[1].require_admin /\ resp[1].endpoint \in AdminPaths
    /\ resp[1].status = HTTP_403_FORBIDDEN
    /\ ~resp[1].key_data[1].is_admin
    /\ resp[1].key_data[1].expires_at # None
    /\ now > resp[1].key_data[1].expires_at[1]
    /\ resp[1].key_data[1].allowed_endpoints = Gen

\* --------------------------------------------------------------- C24
\* worker w's validate_key call succeeds in this step
Succeeds(w) == Decides(w) /\ Decision(w).status = HTTP_200_OK

\* C24: each validate_key call that succeeds adds exactly one to the
\* usage_count the row has at that moment, whatever the row held when the
\* call read it, and no other step changes a usage_count: after N successes
\* on a key, overlapping or not, its count is N higher.
C24_NoLostUsageUpdate ==
    [][/\ Len(api_keys') >= Len(api_keys)
       /\ \A w \in Workers : Succeeds(w) =>
             \A i \in 1..Len(api_keys) :
                 api_keys'[i].usage_count =
                     api_keys[i].usage_count
                     + (IF api_keys[i].key_hash = hash_key(req[w].api_key)
                        THEN 1 ELSE 0)
       /\ (~ \E w \in Workers : Succeeds(w)) =>
             \A i \in 1..Len(api_keys) :
                 api_keys'[i].usage_count = api_keys[i].usage_count
      ]_vars

\* C24 witness: two calls on one key overlapped: the call that has just
\* succeeded had read the row with usage_count 0, and the row now counts 2
C24_Witness ==
    /\ resp # None /\ IsDecision(resp[1]) /\ resp[1].status = HTTP_200_OK
    /\ resp[1].key_data[1].usage_count = 0
    /\ \E i \in 1..Len(api_keys) :
          /\ api_keys[i].key_hash = hash_key(resp[1].api_key)
          /\ api_keys[i].usage_count = 2

\* --------------------------------------------------------------- C25
\* C25: what each operation leaves alone.  A validate_key call that succeeds
\* changes last_used_at and usage_count of the rows with the hash of its key
\* and nothing else; one that is rejected changes no row and no log entry;
\* revoke and activate change is_active of the rows with the given prefix
\* and nothing else; list and stats change nothing; the append of a log
\* entry changes no row.
C25_OnlyOwnFields ==
    [][/\ \A w \in Workers : Succeeds(w) =>
             /\ Len(api_keys') = Len(api_keys)
             /\ logs' = logs
             /\ \A i \in 1..Len(api_keys) :
                   api_keys'[i] =
                      IF api_keys[i].key_hash = hash_key(req[w].api_key)
                      THEN [api_keys[i] EXCEPT
                               !.last_used_at = api_keys'[i].last_used_at,
                               !.usage_count = api_keys'[i].usage_count]
                      ELSE api_keys[i]
       /\ Rejects => api_keys' = api_keys /\ logs' = logs
       /\ (resp' # None /\ resp'[1].dep \in {"revoke_api_key", "activate_api_key"}) =>
             /\ Len(api_keys') = Len(api_keys)
             /\ logs' = logs
             /\ \A i \in 1..Len(api_keys) :
                   api_keys'[i] =
                      IF api_keys[i].key_prefix = resp'[1].body[1]
                      THEN [api_keys[i] EXCEPT !.is_active = api_keys'[i].is_active]
                      ELSE api_keys[i]
       /\ (resp' # None /\ resp'[1].dep \in {"list_api_keys", "get_stats"}) =>
             api_keys' = api_keys /\ logs' = logs
       /\ \A w \in Workers : Logs(w) => api_keys' = api_keys
      ]_vars

\* C25 witness: a revoke has just been answered 200; the row of its prefix is
\* inactive and a used row of another prefix is active as before
C25_Witness ==
    /\ resp # None /\ resp[1].dep = "revoke_api_key" /\ resp[1].status = HTTP_200_OK
    /\ \E i, j \in 1..Len(api_keys) :
          /\ api_keys[i].key_prefix = resp[1].body[1] /\ ~api_keys[i].is_active
          /\ api_keys[j].key_prefix # resp[1].body[1] /\ api_keys[j].is_active
          /\ api_keys[j].usage_count >= 1

\* --------------------------------------------------------------- C26
\* C26 as stated: get_stats asked for a key_prefix that no credential has
\* answers 404.
C26_StatsOfUnknownPrefixNotFound ==
    (/\ resp # None /\ resp[1].dep = "get_stats"
     /\ resp[1].query # None
     /\ ~HasPrefix(resp[1].query[1]))
        => resp[1].status = HTTP_404_NOT_FOUND

\* --------------------------------------------------------------- C27
\* C27 as stated: a step changes usage_count or last_used_at only of rows
\* that are active when it writes.
C27_UsageOnlyOfActive ==
    [][/\ Len(api_keys') >= Len(api_keys)
       /\ \A i \in 1..Len(api_keys) :
             (\/ api_keys'[i].usage_count # api_keys[i].usage_count
              \/ api_keys'[i].last_used_at # api_keys[i].last_used_at)
                 => api_keys[i].is_active
      ]_vars

\* --------------------------------------------------------------- C28
\* the log entries of a prefix, and the uses counted on its credentials
EntriesOf(key_prefix) ==
    Cardinality({i \in 1..Len(logs) : logs[i].key_prefix = key_prefix})
UsageOf(key_prefix) ==
    TotalUsage(SelectSeq(api_keys, LAMBDA k : k.key_prefix = key_prefix))

\* C28: for every prefix, the log holds at most as many entries of the prefix
\* as uses are counted on the credentials of the prefix.
C28_EntriesWithinUsage ==
    \A key_prefix \in Prefixes : EntriesOf(key_prefix) <= UsageOf(key_prefix)

\* C28 witness: two requests with one key were in flight together and both
\* are logged: two entries of its prefix, two uses counted, and the credential
\* the later request carries was read before either use was counted
C28_Witness ==
    \E key_prefix \in Prefixes :
        /\ EntriesOf(key_prefix) = 2
        /\ UsageOf(key_prefix) = 2
        /\ \E w \in Workers :
              /\ req[w].pc = "handler"
              /\ req[w].key_data[1].key_prefix = key_prefix
              /\ req[w].key_data[1].usage_count = 0

\* --------------------------------------------------------------- C29
\* C29: on the table of every reachable state and for every prefix, a second
\* revoke_key (activate_key) leaves the table as the first did and matches
\* the same rows, so it returns what the first returned; and activate_key
\* after revoke_key gives back every row of the prefix that was active, all
\* columns as before, found again by the lookup of validate_key, while in
\* between the lookup does not find it.
C29_IdempotentAndInverse ==
    \A key_prefix \in Prefixes :
        LET revoked == revoke_key(api_keys, key_prefix)
            activated == activate_key(api_keys, key_prefix)
            restored == activate_key(revoked, key_prefix)
        IN  /\ revoke_key(revoked, key_prefix) = revoked
            /\ activate_key(activated, key_prefix) = activated
            /\ RowCount(revoked, key_prefix) = RowCount(api_keys, key_prefix)
            /\ RowCount(activated, key_prefix) = RowCount(api_keys, key_prefix)
            /\ \A i \in 1..Len(api_keys) :
                  (api_keys[i].key_prefix = key_prefix /\ api_keys[i].is_active)
                      => /\ restored[i] = api_keys[i]
                         /\ SelectActive(revoked, api_keys[i].key_hash) = None
                         /\ SelectActive(restored, api_keys[i].key_hash)
                               = SelectActive(api_keys, api_keys[i].key_hash)

\* C29 witness: a key that revoked its own prefix was activated again and
\* its validation has just succeeded, the earlier uses still counted
C29_Witness ==
    /\ resp # None /\ IsDecision(resp[1]) /\ resp[1].status = HTTP_200_OK
    /\ hash_key(resp[1].api_key) \in self_revoked
    /\ \E i \in 1..Len(api_keys) :
          /\ api_keys[i].key_hash = hash_key(resp[1].api_key)
          /\ api_keys[i].is_active
          /\ api_keys[i].usage_count >= 2

\* --------------------------------------------------------------- C30
\* a request of worker w is past the lookup of validate_key
PastLookup(w) == req[w].pc \in {"selected", "validated", "handler"}

\* no row is an active admin credential
NoActiveAdmin(keys) ==
    \A i \in 1..Len(keys) :
        ~("is_admin" \in DOMAIN keys[i] /\ keys[i].is_admin /\ keys[i].is_active)

\* the answer is one of a handler that creates, revokes or activates
LifecycleAnswer(r) ==
    r # None /\ r[1].dep \in {"create_api_key", "revoke_api_key", "activate_api_key"}

\* C30 as stated: once a credential has revoked its own prefix, no later
\* request presenting it gets past the lookup; and while no admin credential
\* is active no handler creates, revokes or activates.
C30_SelfRevokedForGood ==
    /\ \A w \in Workers :
          PastLookup(w) => hash_key(req[w].api_key) \notin self_revoked
    /\ (resp # None /\ IsDecision(resp[1]))
          => hash_key(resp[1].api_key) \notin self_revoked
    /\ NoActiveAdmin(api_keys) => \A w \in Workers : req[w].pc # "handler"

\* C30 amended: a revoke of the caller's own prefix is carried out like any
\* other and leaves the caller's row inactive; a key whose row is inactive is
\* rejected with 401 at the lookup, which lasts until a credential of its
\* prefix is activated again; and while no admin credential is active no
\* request reaches a handler, no handler creates, revokes or activates, and
\* is_active and the number of rows change only when the init script adds
\* its admin credential.
C30_SelfRevokedUntilActivated ==
    [][/\ (LifecycleAnswer(resp') /\ resp'[1].dep = "revoke_api_key"
           /\ resp'[1].key_data[1].key_prefix = resp'[1].body[1]) =>
             /\ resp'[1].status = HTTP_200_OK
             /\ \A i \in 1..Len(api_keys') :
                   api_keys'[i].key_hash = resp'[1].key_data[1].key_hash
                       => ~api_keys'[i].is_active
       /\ \A w \in Workers : LookupPasses(w) =>
             \E i \in 1..Len(api_keys) :
                 /\ api_keys[i].key_hash = hash_key(req'[w].api_key)
                 /\ api_keys[i].is_active
       /\ (LookupRejects /\ resp'[1].api_key # NoKey) =>
             /\ resp'[1].status = HTTP_401_UNAUTHORIZED
             /\ \A i \in 1..Len(api_keys) :
                   api_keys[i].key_hash = hash_key(resp'[1].api_key)
                       => ~api_keys[i].is_active
       /\ NoActiveAdmin(api_keys) =>
             /\ ~LifecycleAnswer(resp')
             /\ \A w \in Workers : req'[w].pc # "handler"
             /\ (resp' = None \/ resp'[1].dep # "create_admin_key") =>
                   /\ Len(api_keys') = Len(api_keys)
                   /\ \A i \in 1..Len(api_keys) :
                         api_keys'[i].is_active = api_keys[i].is_active
      ]_vars

\* C30 witness: the only admin credential revoked its own prefix, was presented
\* again and has just been rejected with 401; no admin credential is active
C30_Witness ==
    /\ resp # None /\ resp[1].dep = "validate_key"
    /\ resp[1].status = HTTP_401_UNAUTHORIZED
    /\ hash_key(resp[1].api_key) \in self_revoked
    /\ api_keys # <<>>
    /\ NoActiveAdmin(api_keys)

====
